---- MODULE Spec2Model ----
(***************************************************************************)
(* PublicServiceFeedbackFHE: the feedback ledger, the per-service-type     *)
(* aggregate accumulator and the decryption request/reveal protocol of     *)
(* src/contracts/PublicServiceFeedbackFHE.sol, as a state machine.         *)
(*                                                                         *)
(* An euint32 is modelled by the plaintext its ciphertext decrypts to,     *)
(* together with the "initialized" bit of its handle.  A 32-bit unsigned   *)
(* integer is a pair <<hi, lo>> of 16-bit halves, so that arithmetic       *)
(* modulo 2^32 is exact.                                                   *)
(*                                                                         *)
(* The web frontend of src/frontend/web/src/App.tsx is a second state      *)
(* machine over its own variables: clients that read and write a key-value *)
(* store through getData / setData, one step per awaited call.             *)
(***************************************************************************)
EXTENDS Integers, Sequences, FiniteSets, TLC

(***************************************************************************)
(* Bounds of the model.                                                    *)
(***************************************************************************)
\* the number of successful submissions, aggregate updates and reveal requests
MaxCalls == 4

(***************************************************************************)
(* uint32 / euint32 arithmetic.                                            *)
(***************************************************************************)
Half == 65536

U32(n) == <<n \div Half, n % Half>>

Zero32 == U32(0)

IsU32(x) == x[1] \in 0..(Half - 1) /\ x[2] \in 0..(Half - 1)

Add32(a, b) ==
    LET lo == a[2] + b[2]
        hi == a[1] + b[1] + (lo \div Half)
    IN  <<hi % Half, lo % Half>>

Sub32(a, b) ==
    LET lo == a[2] - b[2]
        hi == a[1] - b[1] - (IF lo < 0 THEN 1 ELSE 0)
    IN  <<hi % Half, lo % Half>>

\* x * y for 16-bit x, y, as the pair <<high half, low half>> of the product
MulHalves(x, y) ==
    LET p == x * (y \div 256)
        q == x * (y % 256)
        low == (p % 256) * 256 + q
    IN  <<(p \div 256) + (low \div Half), low % Half>>

Mul32(a, b) ==
    LET ll == MulHalves(a[2], b[2])
        hl == MulHalves(a[1], b[2])
        lh == MulHalves(a[2], b[1])
    IN  <<(ll[1] + hl[2] + lh[2]) % Half, ll[2]>>

Geq32(x, y) == x[1] > y[1] \/ (x[1] = y[1] /\ x[2] >= y[2])

\* the value of a 32-bit integer below 2^31 as a number
ToInt(x) == x[1] * Half + x[2]

IsHigh(x) == x[1] >= 32768

Max32 == <<Half - 1, Half - 1>>

\* floor(a / b) modulo nothing: exact unsigned 32-bit division, b # 0.
\* For a >= 2^31 > b it divides 2^31 - 1 and a - 2^31 separately and adds
\* the carry of the two remainders plus one.
DivNonZero32(a, b) ==
    IF IsHigh(b) THEN (IF Geq32(a, b) THEN U32(1) ELSE Zero32)
    ELSE IF ~IsHigh(a) THEN U32(ToInt(a) \div ToInt(b))
    ELSE LET n == ToInt(b)
             m == ToInt(<<32767, Half - 1>>)
             rest == ToInt(<<a[1] - 32768, a[2]>>)
             carry == IF (m % n) + 1 >= n - (rest % n) THEN 1 ELSE 0
         IN  Add32(Add32(U32(m \div n), U32(rest \div n)), U32(carry))

\* FHE.div: homomorphic division; a zero divisor yields the all-ones value
Div32(a, b) == IF b = Zero32 THEN Max32 ELSE DivNonZero32(a, b)

\* an euint32 handle: the plaintext behind it and whether it is initialized
Uninit == [init |-> FALSE, val |-> Zero32]

FHE_asEuint32(n) == [init |-> TRUE, val |-> U32(n)]

FHE_isInitialized(x) == x.init

\* an uninitialized operand counts as an encryption of 0
Plain(x) == IF x.init THEN x.val ELSE Zero32

\* faulty variant: the operands are subtracted
FHE_add_subtracts(x, y) == [init |-> TRUE, val |-> Sub32(Plain(x), Plain(y))]

FHE_add(x, y) == [init |-> TRUE, val |-> Add32(Plain(x), Plain(y))]

FHE_sub(x, y) == [init |-> TRUE, val |-> Sub32(Plain(x), Plain(y))]

FHE_mul(x, y) == [init |-> TRUE, val |-> Mul32(Plain(x), Plain(y))]

FHE_div(x, y) == [init |-> TRUE, val |-> Div32(Plain(x), Plain(y))]

FHE_max(x, y) ==
    [init |-> TRUE, val |-> IF Geq32(Plain(x), Plain(y)) THEN Plain(x) ELSE Plain(y)]

FHE_min(x, y) ==
    [init |-> TRUE, val |-> IF Geq32(Plain(x), Plain(y)) THEN Plain(y) ELSE Plain(x)]

(***************************************************************************)
(* Identities, keys and inputs.                                            *)
(***************************************************************************)
Address == {"a1", "a2"}

\* address(0): the citizen field of a record that was never written
ZeroAddress == "0x0"

\* msg.sender of the constructor
Deployer == "a1"

ServiceTypeIds == {0, 1, 2}

\* keys of the feedbacks mapping; 0 is never allocated
FeedbackIds == 0..MaxCalls

\* keys of the request mapping; MaxCalls is never allocated
RequestIds == 0..MaxCalls

\* the plaintexts behind the four handles a citizen submits
FeedbackInputs ==
    { [serviceType |-> 1, rating |-> 5, responseTime |-> 10, comment |-> 7],
      [serviceType |-> 2, rating |-> 4, responseTime |-> 20, comment |-> 7] }

(***************************************************************************)
(* State.                                                                  *)
(***************************************************************************)
VARIABLES
    govAdmin,              \* address public govAdmin
    authorizedManagers,    \* mapping(address => bool)
    feedbackCount,         \* uint256 public feedbackCount
    feedbacks,             \* mapping(uint256 => EncryptedFeedback)
    citizenFeedbacks,      \* mapping(address => uint256[])
    serviceAggregates,     \* mapping(uint32 => ServiceAggregate)
    decryptedAggregates,   \* mapping(uint32 => DecryptedAggregate)
    requestToServiceType,  \* mapping(uint256 => uint32)
    counterRequest,        \* decryption oracle: the next request id
    requestedHandles,      \* decryption oracle: request id -> handles to decrypt
    aggregated,            \* history: feedback ids passed to updateServiceAggregates
    data,                  \* frontend store: key -> bytes (getData / setData)
    provider,              \* per client: a wallet provider is connected
    pc,                    \* per client: the await its handler is suspended at
    currentFeedbackId,     \* per client: const feedbackId of the running handler
    feedbackData,          \* per client: const feedbackData of the running handler
    keys,                  \* per client: let keys of the running handler
    feedbackList,          \* per client: the React state "feedbacks"
    transactionStatus      \* per client: transactionStatus.status

contractVars ==
    <<govAdmin, authorizedManagers, feedbackCount, feedbacks, citizenFeedbacks,
      serviceAggregates, decryptedAggregates, requestToServiceType>>

oracleVars == <<counterRequest, requestedHandles>>

frontendVars ==
    <<data, provider, pc, currentFeedbackId, feedbackData, keys, feedbackList,
      transactionStatus>>

vars == <<contractVars, oracleVars, aggregated, frontendVars>>

\* the zero values of the three structs
EmptyFeedback ==
    [id |-> 0, citizen |-> ZeroAddress, encryptedServiceType |-> Uninit,
     encryptedRating |-> Uninit, encryptedResponseTime |-> Uninit,
     encryptedComment |-> Uninit, timestamp |-> 0]

EmptyAggregate ==
    [encryptedTotalRating |-> Uninit, encryptedResponseAvg |-> Uninit,
     encryptedFeedbackCount |-> Uninit, encryptedImprovementScore |-> Uninit]

EmptyDecrypted ==
    [avgRating |-> Zero32, avgResponseTime |-> Zero32, feedbackCount |-> Zero32,
     improvementScore |-> Zero32, isRevealed |-> FALSE]

NoHandles == <<>>

(***************************************************************************)
(* The frontend's key-value store: clients, keys, bytes.                   *)
(***************************************************************************)
\* browser sessions running the App component
Clients == {"c1", "c2"}

\* `${Date.now()}-${Math.random().toString(36).substring(2, 9)}`
FrontendIds == {"t1-a", "t2-b"}

\* Math.floor(Date.now() / 1000) at the submission that drew the id
IdTimestamp(id) == IF id = "t1-a" THEN 100 ELSE 200

\* the form state newFeedback at the time of a submission
NewFeedbackInputs ==
    {[serviceType |-> "roads", feedbackText |-> "slow", satisfaction |-> 3]}

\* Math.floor(Math.random() * 5) + 1
SatisfactionScores == {4}

KeysKey == <<"feedback_keys", "">>

FeedbackKey(id) == <<"feedback_", id>>

DataKeys == {KeysKey} \cup {FeedbackKey(id) : id \in FrontendIds}

\* getData of a key never set: bytes of length 0
NoBytes == <<>>

\* `FHE-${btoa(JSON.stringify({text, satisfaction}))}`
EncryptFeedback(in) == <<"FHE-", in.feedbackText, in.satisfaction>>

\* ethers.toUtf8Bytes(JSON.stringify(feedbackData)); an absent
\* satisfactionScore is written as 0
StringifyFeedback(fd) ==
    <<"{", fd.serviceType, fd.encryptedFeedback, fd.timestamp, fd.fheProcessed,
      fd.satisfactionScore, "}">>

\* JSON.parse(ethers.toUtf8String(feedbackBytes))
ParseFeedback(bytes) ==
    [serviceType |-> bytes[2], encryptedFeedback |-> bytes[3],
     timestamp |-> bytes[4], fheProcessed |-> bytes[5],
     satisfactionScore |-> bytes[6]]

\* ethers.toUtf8Bytes(JSON.stringify(keys))
StringifyKeys(ks) == <<"[">> \o ks \o <<"]">>

\* keys = [] unless keysBytes.length > 0, then JSON.parse(...)
ParseKeys(bytes) ==
    IF Len(bytes) > 0 THEN SubSeq(bytes, 2, Len(bytes) - 1) ELSE <<>>

NoFeedbackData ==
    [serviceType |-> "", encryptedFeedback |-> <<>>, timestamp |-> 0,
     fheProcessed |-> FALSE, satisfactionScore |-> 0]

\* useState defaults; the mount effect has called loadFeedbacks()
FrontendInit ==
    /\ data = [k \in DataKeys |-> NoBytes]
    /\ provider = [c \in Clients |-> FALSE]
    /\ pc = [c \in Clients |-> "load_getKeys"]
    /\ currentFeedbackId = [c \in Clients |-> ""]
    /\ feedbackData = [c \in Clients |-> NoFeedbackData]
    /\ keys = [c \in Clients |-> <<>>]
    /\ feedbackList = [c \in Clients |-> <<>>]
    /\ transactionStatus = [c \in Clients |-> "hidden"]

Init ==
    /\ FrontendInit
    /\ govAdmin = Deployer
    /\ authorizedManagers = [a \in Address |-> FALSE]
    /\ feedbackCount = 0
    /\ feedbacks = [i \in FeedbackIds |-> EmptyFeedback]
    /\ citizenFeedbacks = [a \in Address |-> <<>>]
    /\ serviceAggregates = [s \in ServiceTypeIds |-> EmptyAggregate]
    /\ decryptedAggregates = [s \in ServiceTypeIds |-> EmptyDecrypted]
    /\ requestToServiceType = [r \in RequestIds |-> 0]
    /\ counterRequest = 0
    /\ requestedHandles = [r \in RequestIds |-> NoHandles]
    /\ aggregated = <<>>

\* successful submissions, aggregate updates and reveal requests so far
Calls == feedbackCount + Len(aggregated) + counterRequest

\* a call that reverts: the whole state transition is undone
Reverted == UNCHANGED vars

(***************************************************************************)
(* authorizeManager                                                        *)
(***************************************************************************)
\* faulty variant: the onlyAdmin modifier left off
onlyAdmin_absent(sender) == TRUE

onlyAdmin(sender) == sender = govAdmin

\* the first failing require, or "ok"
authorizeManagerResult(sender, manager) ==
    IF ~onlyAdmin(sender) THEN "Not admin" ELSE "ok"

authorizeManager(sender, manager) ==
    IF authorizeManagerResult(sender, manager) # "ok"
    THEN Reverted
    ELSE /\ authorizedManagers' = [authorizedManagers EXCEPT ![manager] = TRUE]
         /\ UNCHANGED <<frontendVars, govAdmin, feedbackCount, feedbacks, citizenFeedbacks,
                        serviceAggregates, decryptedAggregates,
                        requestToServiceType, oracleVars, aggregated>>

(***************************************************************************)
(* submitEncryptedFeedback                                                 *)
(***************************************************************************)
\* block.timestamp: one block of 12 seconds per successful call
BlockTimestamp == 1000 + 12 * Calls

\* faulty variant: the counter is not incremented
NewId_noIncrement == feedbackCount

NewId == feedbackCount + 1

\* faulty variant: the record is bound to the administrator, not to the caller
NewFeedback_wrongCitizen(sender, in) ==
    [id |-> NewId, citizen |-> govAdmin,
     encryptedServiceType |-> FHE_asEuint32(in.serviceType),
     encryptedRating |-> FHE_asEuint32(in.rating),
     encryptedResponseTime |-> FHE_asEuint32(in.responseTime),
     encryptedComment |-> FHE_asEuint32(in.comment),
     timestamp |-> BlockTimestamp]

NewFeedback(sender, in) ==
    [id |-> NewId, citizen |-> sender,
     encryptedServiceType |-> FHE_asEuint32(in.serviceType),
     encryptedRating |-> FHE_asEuint32(in.rating),
     encryptedResponseTime |-> FHE_asEuint32(in.responseTime),
     encryptedComment |-> FHE_asEuint32(in.comment),
     timestamp |-> BlockTimestamp]

submitEncryptedFeedback(sender, in) ==
    /\ Calls < MaxCalls
    /\ feedbackCount' = NewId
    /\ feedbacks' = [feedbacks EXCEPT ![NewId] = NewFeedback(sender, in)]
    /\ citizenFeedbacks' =
           [citizenFeedbacks EXCEPT ![sender] = Append(@, NewId)]
    /\ UNCHANGED <<frontendVars, govAdmin, authorizedManagers, serviceAggregates,
                   decryptedAggregates, requestToServiceType, oracleVars,
                   aggregated>>

(***************************************************************************)
(* updateServiceAggregates                                                 *)
(***************************************************************************)
\* faulty variant: the new contribution is added to the score, not averaged
\* with it
calculateImprovementScore_notHalved(rating, responseTime, currentScore) ==
    LET ratingImpact == FHE_mul(rating, FHE_asEuint32(20))
        responseImpact ==
            FHE_sub(FHE_asEuint32(100), FHE_div(responseTime, FHE_asEuint32(10)))
        newContribution ==
            FHE_div(FHE_add(ratingImpact, responseImpact), FHE_asEuint32(2))
    IN  FHE_add(currentScore, newContribution)

\* faulty variant: the response impact stops at 0 instead of wrapping
calculateImprovementScore_saturating(rating, responseTime, currentScore) ==
    LET ratingImpact == FHE_mul(rating, FHE_asEuint32(20))
        tenth == FHE_div(responseTime, FHE_asEuint32(10))
        responseImpact ==
            IF Geq32(U32(100), Plain(tenth))
            THEN FHE_sub(FHE_asEuint32(100), tenth)
            ELSE FHE_asEuint32(0)
        newContribution ==
            FHE_div(FHE_add(ratingImpact, responseImpact), FHE_asEuint32(2))
    IN  FHE_div(FHE_add(currentScore, newContribution), FHE_asEuint32(2))

calculateImprovementScore(rating, responseTime, currentScore) ==
    LET ratingImpact == FHE_mul(rating, FHE_asEuint32(20))
        responseImpact ==
            FHE_sub(FHE_asEuint32(100), FHE_div(responseTime, FHE_asEuint32(10)))
        newContribution ==
            FHE_div(FHE_add(ratingImpact, responseImpact), FHE_asEuint32(2))
    IN  FHE_div(FHE_add(currentScore, newContribution), FHE_asEuint32(2))

\* uint32 serviceType = 1; // Placeholder
PlaceholderServiceType == 1

\* faulty variant: the key is the service type the feedback carries
AggregateKey_ofFeedback(feedback) == ToInt(Plain(feedback.encryptedServiceType))

\* the key of serviceAggregates the update works on: the feedback is not
\* consulted
AggregateKey(feedback) == PlaceholderServiceType

\* the aggregate as the function finds it, zero-initialized on first use
InitializedAggregate(aggregate) ==
    IF ~FHE_isInitialized(aggregate.encryptedFeedbackCount)
    THEN [encryptedTotalRating |-> FHE_asEuint32(0),
          encryptedResponseAvg |-> FHE_asEuint32(0),
          encryptedFeedbackCount |-> FHE_asEuint32(0),
          encryptedImprovementScore |-> FHE_asEuint32(0)]
    ELSE aggregate

\* the count factor of the running mean: the storage slot is read after
\* newCount was written to it
ResponseCountFactor(oldCount, newCount) == newCount

\* faulty variant: the total rating is set to the rating, not increased by it
UpdatedAggregate_totalOverwritten(aggregate, feedback) ==
    LET a0 == InitializedAggregate(aggregate)
        newCount == FHE_add(a0.encryptedFeedbackCount, FHE_asEuint32(1))
        totalResponse ==
            FHE_add(FHE_mul(a0.encryptedResponseAvg,
                            ResponseCountFactor(a0.encryptedFeedbackCount, newCount)),
                    feedback.encryptedResponseTime)
    IN  [encryptedTotalRating |-> FHE_add(FHE_asEuint32(0), feedback.encryptedRating),
         encryptedResponseAvg |-> FHE_div(totalResponse, newCount),
         encryptedFeedbackCount |-> newCount,
         encryptedImprovementScore |->
             calculateImprovementScore(feedback.encryptedRating,
                                       feedback.encryptedResponseTime,
                                       a0.encryptedImprovementScore)]

UpdatedAggregate(aggregate, feedback) ==
    LET a0 == InitializedAggregate(aggregate)
        totalRating == FHE_add(a0.encryptedTotalRating, feedback.encryptedRating)
        newCount == FHE_add(a0.encryptedFeedbackCount, FHE_asEuint32(1))
        totalResponse ==
            FHE_add(FHE_mul(a0.encryptedResponseAvg,
                            ResponseCountFactor(a0.encryptedFeedbackCount, newCount)),
                    feedback.encryptedResponseTime)
    IN  [encryptedTotalRating |-> totalRating,
         encryptedResponseAvg |-> FHE_div(totalResponse, newCount),
         encryptedFeedbackCount |-> newCount,
         encryptedImprovementScore |->
             calculateImprovementScore(feedback.encryptedRating,
                                       feedback.encryptedResponseTime,
                                       a0.encryptedImprovementScore)]

\* faulty variant: a feedback id is aggregated once only
updateServiceAggregatesResult_onceOnly(feedbackId) ==
    IF \E i \in 1..Len(aggregated) : aggregated[i] = feedbackId
    THEN "Already aggregated"
    ELSE "ok"

\* the function has no require: neither the existence of the feedback nor an
\* earlier aggregation of it is looked at
updateServiceAggregatesResult(feedbackId) == "ok"

updateServiceAggregates(feedbackId) ==
    LET feedback == feedbacks[feedbackId]
        serviceType == AggregateKey(feedback)
    IN  IF updateServiceAggregatesResult(feedbackId) # "ok" THEN Reverted ELSE
        /\ Calls < MaxCalls
        /\ serviceAggregates' =
               [serviceAggregates EXCEPT
                    ![serviceType] = UpdatedAggregate(@, feedback)]
        /\ aggregated' = Append(aggregated, feedbackId)
        /\ UNCHANGED <<frontendVars, govAdmin, authorizedManagers, feedbackCount, feedbacks,
                       citizenFeedbacks, decryptedAggregates,
                       requestToServiceType, oracleVars>>

(***************************************************************************)
(* requestAggregateDecryption                                              *)
(***************************************************************************)
\* faulty variant: the onlyManager modifier left off
onlyManager_absent(sender) == TRUE

onlyManager(sender) == authorizedManagers[sender]

\* faulty variant: the "Already decrypted" require left out of the request
requestAggregateDecryptionResult_noRevealedGuard(sender, serviceType) ==
    IF ~authorizedManagers[sender] THEN "Not authorized"
    ELSE IF ~FHE_isInitialized(serviceAggregates[serviceType].encryptedFeedbackCount)
    THEN "No data"
    ELSE "ok"

\* faulty variant: the "No data" require left out of the request
requestAggregateDecryptionResult_noDataGuard(sender, serviceType) ==
    IF ~authorizedManagers[sender] THEN "Not authorized"
    ELSE IF decryptedAggregates[serviceType].isRevealed THEN "Already decrypted"
    ELSE "ok"

\* faulty variant: a request is refused while another one is bound
requestAggregateDecryptionResult_pendingGuard(sender, serviceType) ==
    IF ~authorizedManagers[sender] THEN "Not authorized"
    ELSE IF ~FHE_isInitialized(serviceAggregates[serviceType].encryptedFeedbackCount)
    THEN "No data"
    ELSE IF decryptedAggregates[serviceType].isRevealed THEN "Already decrypted"
    ELSE IF \E r \in RequestIds : requestToServiceType[r] = serviceType
    THEN "Already requested"
    ELSE "ok"

\* the first failing require, or "ok"
requestAggregateDecryptionResult(sender, serviceType) ==
    IF ~onlyManager(sender) THEN "Not authorized"
    ELSE IF ~FHE_isInitialized(serviceAggregates[serviceType].encryptedFeedbackCount)
    THEN "No data"
    ELSE IF decryptedAggregates[serviceType].isRevealed THEN "Already decrypted"
    ELSE "ok"

\* bytes32[] ciphertexts: the four handles of the aggregate, in order
Ciphertexts(aggregate) ==
    <<aggregate.encryptedTotalRating, aggregate.encryptedResponseAvg,
      aggregate.encryptedFeedbackCount, aggregate.encryptedImprovementScore>>

requestAggregateDecryption(sender, serviceType) ==
    LET result == requestAggregateDecryptionResult(sender, serviceType)
        reqId == counterRequest
    IN  IF result # "ok"
        THEN Reverted
        ELSE /\ Calls < MaxCalls
             /\ counterRequest' = counterRequest + 1
             /\ requestedHandles' =
                    [requestedHandles EXCEPT
                         ![reqId] = Ciphertexts(serviceAggregates[serviceType])]
             /\ requestToServiceType' =
                    [requestToServiceType EXCEPT ![reqId] = serviceType]
             /\ UNCHANGED <<frontendVars, govAdmin, authorizedManagers, feedbackCount, feedbacks,
                            citizenFeedbacks, serviceAggregates,
                            decryptedAggregates, aggregated>>

(***************************************************************************)
(* decryptAggregateData (the oracle's callback)                            *)
(***************************************************************************)
\* what the oracle's signers attest: these cleartexts decrypt these handles
KmsSignature(handles, cleartexts) == [handles |-> handles, cleartexts |-> cleartexts]

ForgedProof == [handles |-> NoHandles, cleartexts |-> <<>>]

DecryptHandles(handles) == [i \in 1..Len(handles) |-> Plain(handles[i])]

Requested == {r \in RequestIds : requestedHandles[r] # NoHandles}

\* the signatures the oracle has issued: true decryptions of requested handles
IssuedProofs ==
    {KmsSignature(requestedHandles[r], DecryptHandles(requestedHandles[r])) :
        r \in Requested}

\* a bundle no request decrypts to: a count of zero
TamperedCleartexts == <<U32(12), U32(20), U32(0), U32(50)>>

CleartextInputs ==
    {DecryptHandles(requestedHandles[r]) : r \in Requested} \cup {TamperedCleartexts}

ProofInputs == IssuedProofs \cup {ForgedProof}

\* faulty variant: any issued signature passes, whatever it signs
checkSignatures_anyIssued(requestId, cleartexts, proof) ==
    /\ requestedHandles[requestId] # NoHandles
    /\ proof \in IssuedProofs

\* faulty variant: the proof is checked against the handles the aggregate
\* holds at the time of the callback, not those saved with the request
checkSignatures_currentHandles(requestId, cleartexts, proof) ==
    /\ requestedHandles[requestId] # NoHandles
    /\ proof \in IssuedProofs
    /\ proof = KmsSignature(
                   Ciphertexts(serviceAggregates[requestToServiceType[requestId]]),
                   cleartexts)

\* FHE.checkSignatures: the proof is an issued signature over the handles of
\* this request and these cleartexts
checkSignatures(requestId, cleartexts, proof) ==
    /\ requestedHandles[requestId] # NoHandles
    /\ proof \in IssuedProofs
    /\ proof = KmsSignature(requestedHandles[requestId], cleartexts)

\* faulty variant: the "Already decrypted" require left out of the callback
decryptAggregateDataResult_noRevealedGuard(requestId, cleartexts, proof) ==
    LET serviceType == requestToServiceType[requestId]
    IN  IF serviceType = 0 THEN "Invalid request"
        ELSE IF ~checkSignatures(requestId, cleartexts, proof) THEN "Invalid proof"
        ELSE IF cleartexts[3] = Zero32 THEN "Panic"
        ELSE "ok"

\* faulty variant: the "Invalid request" require left out of the callback
decryptAggregateDataResult_noBoundGuard(requestId, cleartexts, proof) ==
    LET serviceType == requestToServiceType[requestId]
    IN  IF decryptedAggregates[serviceType].isRevealed THEN "Already decrypted"
        ELSE IF ~checkSignatures(requestId, cleartexts, proof) THEN "Invalid proof"
        ELSE IF cleartexts[3] = Zero32 THEN "Panic"
        ELSE "ok"

\* faulty variant: the signatures are checked before the revealed flag
decryptAggregateDataResult_proofFirst(requestId, cleartexts, proof) ==
    LET serviceType == requestToServiceType[requestId]
    IN  IF serviceType = 0 THEN "Invalid request"
        ELSE IF ~checkSignatures(requestId, cleartexts, proof) THEN "Invalid proof"
        ELSE IF decryptedAggregates[serviceType].isRevealed THEN "Already decrypted"
        ELSE IF cleartexts[3] = Zero32 THEN "Panic"
        ELSE "ok"

\* the first failing check, or "ok"
decryptAggregateDataResult(requestId, cleartexts, proof) ==
    LET serviceType == requestToServiceType[requestId]
    IN  IF serviceType = 0 THEN "Invalid request"
        ELSE IF decryptedAggregates[serviceType].isRevealed THEN "Already decrypted"
        ELSE IF ~checkSignatures(requestId, cleartexts, proof) THEN "Invalid proof"
        ELSE IF cleartexts[3] = Zero32 THEN "Panic"
        ELSE "ok"

\* faulty variant: the total stored where the average belongs
RevealedAggregate_noDivision(cleartexts) ==
    [avgRating |-> cleartexts[1],
     avgResponseTime |-> cleartexts[2],
     feedbackCount |-> cleartexts[3],
     improvementScore |-> cleartexts[4],
     isRevealed |-> TRUE]

\* the snapshot written from (totalRating, avgResponse, count, improvementScore)
RevealedAggregate(cleartexts) ==
    [avgRating |-> DivNonZero32(cleartexts[1], cleartexts[3]),
     avgResponseTime |-> cleartexts[2],
     feedbackCount |-> cleartexts[3],
     improvementScore |-> cleartexts[4],
     isRevealed |-> TRUE]

decryptAggregateData(requestId, cleartexts, proof) ==
    LET result == decryptAggregateDataResult(requestId, cleartexts, proof)
        serviceType == requestToServiceType[requestId]
    IN  IF result # "ok"
        THEN Reverted
        ELSE /\ decryptedAggregates' =
                    [decryptedAggregates EXCEPT
                         ![serviceType] = RevealedAggregate(cleartexts)]
             /\ UNCHANGED <<frontendVars, govAdmin, authorizedManagers, feedbackCount, feedbacks,
                            citizenFeedbacks, serviceAggregates,
                            requestToServiceType, oracleVars, aggregated>>

(***************************************************************************)
(* assessFeedbackCredibility (a view: it reads the state and returns)      *)
(***************************************************************************)
\* the loop over the citizen's ids: from the second id on, 5 minus the
\* distance between the rating and the previous one is added.  The
\* function's local array is itself named feedbacks; fb is read as the
\* record of the contract's feedbacks mapping at the id feedbacks[i].
RECURSIVE consistencyScore(_)
consistencyScore(ids) ==
    IF Len(ids) <= 1 THEN FHE_asEuint32(0)
    ELSE LET front == SubSeq(ids, 1, Len(ids) - 1)
             fb == feedbacks[ids[Len(ids)]]
             prevRating == feedbacks[front[Len(front)]].encryptedRating
             diff == FHE_sub(FHE_max(fb.encryptedRating, prevRating),
                             FHE_min(fb.encryptedRating, prevRating))
         IN  FHE_add(consistencyScore(front), FHE_sub(FHE_asEuint32(5), diff))

\* FHE.asEuint32(uint32(feedbacks.length - 1))
CredibilityDivisor(ids) == FHE_asEuint32(Len(ids) - 1)

\* faulty variant: the sum is divided by the number of feedbacks
assessFeedbackCredibility_dividesByLength(citizen) ==
    LET ids == citizenFeedbacks[citizen]
    IN  IF Len(ids) = 0 THEN FHE_asEuint32(0)
        ELSE FHE_div(consistencyScore(ids), FHE_asEuint32(Len(ids)))

assessFeedbackCredibility(citizen) ==
    LET ids == citizenFeedbacks[citizen]
    IN  IF Len(ids) = 0 THEN FHE_asEuint32(0)
        ELSE FHE_div(consistencyScore(ids), CredibilityDivisor(ids))

(***************************************************************************)
(* The contract: any caller may make any call at any time.                 *)
(***************************************************************************)
Next ==
    \/ \E sender \in Address, manager \in Address :
           authorizeManager(sender, manager)
    \/ \E sender \in Address, in \in FeedbackInputs :
           submitEncryptedFeedback(sender, in)
    \/ \E feedbackId \in 0..(feedbackCount + 1) :
           updateServiceAggregates(feedbackId)
    \/ \E sender \in Address, serviceType \in ServiceTypeIds :
           requestAggregateDecryption(sender, serviceType)
    \/ \E requestId \in 0..counterRequest, cleartexts \in CleartextInputs,
          proof \in ProofInputs :
           decryptAggregateData(requestId, cleartexts, proof)

Spec == Init /\ [][Next]_vars

(***************************************************************************)
(* The frontend: App.tsx.  A handler runs from await to await; pc is the   *)
(* call a client's handler is suspended at, "idle" when none is running.   *)
(***************************************************************************)
contractState == <<contractVars, oracleVars, aggregated>>

\* a handler returns: its locals are gone
Return(c) ==
    /\ pc' = [pc EXCEPT ![c] = "idle"]
    /\ currentFeedbackId' = [currentFeedbackId EXCEPT ![c] = ""]
    /\ feedbackData' = [feedbackData EXCEPT ![c] = NoFeedbackData]
    /\ keys' = [keys EXCEPT ![c] = <<>>]

\* provider is read only where a handler starts, so a wallet event during a
\* running handler is the same event right after the handler returns
onWalletSelect(c) ==
    /\ pc[c] = "idle"
    /\ ~provider[c]
    /\ provider' = [provider EXCEPT ![c] = TRUE]
    /\ UNCHANGED <<contractState, data, pc, currentFeedbackId, feedbackData, keys,
                   feedbackList, transactionStatus>>

onDisconnect(c) ==
    /\ pc[c] = "idle"
    /\ provider[c]
    /\ provider' = [provider EXCEPT ![c] = FALSE]
    /\ UNCHANGED <<contractState, data, pc, currentFeedbackId, feedbackData, keys,
                   feedbackList, transactionStatus>>

\* the refresh button
loadFeedbacks(c) ==
    /\ pc[c] = "idle"
    /\ pc' = [pc EXCEPT ![c] = "load_getKeys"]
    /\ UNCHANGED <<contractState, data, provider, currentFeedbackId, feedbackData, keys,
                   feedbackList, transactionStatus>>

\* const keysBytes = await contract.getData("feedback_keys")
loadFeedbacks_getKeys(c) ==
    /\ pc[c] = "load_getKeys"
    /\ keys' = [keys EXCEPT ![c] = ParseKeys(data[KeysKey])]
    /\ pc' = [pc EXCEPT ![c] = "load_getRecords"]
    /\ UNCHANGED <<contractState, data, provider, currentFeedbackId, feedbackData,
                   feedbackList, transactionStatus>>

FeedbackItem(key, fd) ==
    [id |-> key, serviceType |-> fd.serviceType,
     encryptedFeedback |-> fd.encryptedFeedback, timestamp |-> fd.timestamp,
     fheProcessed |-> fd.fheProcessed, satisfactionScore |-> fd.satisfactionScore]

\* for (const key of keys): push the item of every key with non-empty bytes
RECURSIVE LoadedItems(_)
LoadedItems(ks) ==
    IF ks = <<>> THEN <<>>
    ELSE LET key == ks[Len(ks)]
             bytes == data[FeedbackKey(key)]
             front == LoadedItems(SubSeq(ks, 1, Len(ks) - 1))
         IN  IF Len(bytes) > 0
             THEN Append(front, FeedbackItem(key, ParseFeedback(bytes)))
             ELSE front

\* list.sort((a, b) => b.timestamp - a.timestamp): stable, newest first
RECURSIVE SortByTimestamp(_)
SortByTimestamp(list) ==
    IF list = <<>> THEN <<>>
    ELSE LET item == list[Len(list)]
             front == SortByTimestamp(SubSeq(list, 1, Len(list) - 1))
             before == SelectSeq(front, LAMBDA x : x.timestamp >= item.timestamp)
             after == SelectSeq(front, LAMBDA x : x.timestamp < item.timestamp)
         IN  before \o <<item>> \o after

\* the loop of getData calls, then setFeedbacks(list)
loadFeedbacks_getRecords(c) ==
    /\ pc[c] = "load_getRecords"
    /\ feedbackList' =
           [feedbackList EXCEPT ![c] = SortByTimestamp(LoadedItems(keys[c]))]
    /\ Return(c)
    /\ UNCHANGED <<contractState, data, provider, transactionStatus>>

\* an id Date.now() and Math.random() have not produced before
FreshIds ==
    {id \in FrontendIds :
        /\ Len(data[FeedbackKey(id)]) = 0
        /\ \A c \in Clients : currentFeedbackId[c] # id}

submitFeedback(c, id, in) ==
    /\ pc[c] = "idle"
    /\ id \in FreshIds
    /\ IF ~provider[c]
       THEN UNCHANGED vars
       ELSE /\ currentFeedbackId' = [currentFeedbackId EXCEPT ![c] = id]
            /\ feedbackData' =
                   [feedbackData EXCEPT ![c] =
                        [serviceType |-> in.serviceType,
                         encryptedFeedback |-> EncryptFeedback(in),
                         timestamp |-> IdTimestamp(id),
                         fheProcessed |-> FALSE,
                         satisfactionScore |-> 0]]
            /\ transactionStatus' = [transactionStatus EXCEPT ![c] = "pending"]
            /\ pc' = [pc EXCEPT ![c] = "submit_setData"]
            /\ UNCHANGED <<contractState, data, provider, keys, feedbackList>>

\* faulty variant: the record is not written before the id is appended
submitFeedback_setData_skipped(c) ==
    /\ pc[c] = "submit_setData"
    /\ pc' = [pc EXCEPT ![c] = "submit_getKeys"]
    /\ UNCHANGED <<contractState, data, provider, currentFeedbackId, feedbackData,
                   keys, feedbackList, transactionStatus>>

\* await contract.setData(`feedback_${feedbackId}`, ...)
submitFeedback_setData(c) ==
    /\ pc[c] = "submit_setData"
    /\ data' = [data EXCEPT ![FeedbackKey(currentFeedbackId[c])] =
                                StringifyFeedback(feedbackData[c])]
    /\ pc' = [pc EXCEPT ![c] = "submit_getKeys"]
    /\ UNCHANGED <<contractState, provider, currentFeedbackId, feedbackData, keys,
                   feedbackList, transactionStatus>>

\* const keysBytes = await contract.getData("feedback_keys"); keys.push(feedbackId)
submitFeedback_getKeys(c) ==
    /\ pc[c] = "submit_getKeys"
    /\ keys' = [keys EXCEPT ![c] = Append(ParseKeys(data[KeysKey]), currentFeedbackId[c])]
    /\ pc' = [pc EXCEPT ![c] = "submit_setKeys"]
    /\ UNCHANGED <<contractState, data, provider, currentFeedbackId, feedbackData,
                   feedbackList, transactionStatus>>

\* await contract.setData("feedback_keys", ...), success, await loadFeedbacks()
submitFeedback_setKeys(c) ==
    /\ pc[c] = "submit_setKeys"
    /\ data' = [data EXCEPT ![KeysKey] = StringifyKeys(keys[c])]
    /\ transactionStatus' = [transactionStatus EXCEPT ![c] = "success"]
    /\ pc' = [pc EXCEPT ![c] = "load_getKeys"]
    /\ UNCHANGED <<contractState, provider, currentFeedbackId, feedbackData, keys,
                   feedbackList>>

\* the Process button of a listed item that is not shown as processed
Processable(c) ==
    {feedbackList[c][i].id : i \in {j \in 1..Len(feedbackList[c]) :
                                       ~feedbackList[c][j].fheProcessed}}

processWithFHE(c, id) ==
    /\ pc[c] = "idle"
    /\ id \in Processable(c)
    /\ IF ~provider[c]
       THEN UNCHANGED vars
       ELSE /\ currentFeedbackId' = [currentFeedbackId EXCEPT ![c] = id]
            /\ transactionStatus' = [transactionStatus EXCEPT ![c] = "pending"]
            /\ pc' = [pc EXCEPT ![c] = "process_getData"]
            /\ UNCHANGED <<contractState, data, provider, feedbackData, keys,
                           feedbackList>>

\* const feedbackBytes = await contract.getData(`feedback_${feedbackId}`)
processWithFHE_getData(c) ==
    /\ pc[c] = "process_getData"
    /\ LET feedbackBytes == data[FeedbackKey(currentFeedbackId[c])]
       IN  IF Len(feedbackBytes) = 0
           THEN /\ transactionStatus' = [transactionStatus EXCEPT ![c] = "error"]
                /\ Return(c)
                /\ UNCHANGED <<contractState, data, provider, feedbackList>>
           ELSE /\ feedbackData' =
                       [feedbackData EXCEPT ![c] = ParseFeedback(feedbackBytes)]
                /\ pc' = [pc EXCEPT ![c] = "process_setData"]
                /\ UNCHANGED <<contractState, data, provider, currentFeedbackId, keys,
                               feedbackList, transactionStatus>>

\* updatedFeedback = {...feedbackData, fheProcessed: true, satisfactionScore}
UpdatedFeedback(fd, score) ==
    [fd EXCEPT !.fheProcessed = TRUE, !.satisfactionScore = score]

\* await contract.setData(`feedback_${feedbackId}`, ...), success, loadFeedbacks()
processWithFHE_setData(c, score) ==
    /\ pc[c] = "process_setData"
    /\ data' = [data EXCEPT ![FeedbackKey(currentFeedbackId[c])] =
                    StringifyFeedback(UpdatedFeedback(feedbackData[c], score))]
    /\ transactionStatus' = [transactionStatus EXCEPT ![c] = "success"]
    /\ pc' = [pc EXCEPT ![c] = "load_getKeys"]
    /\ UNCHANGED <<contractState, provider, currentFeedbackId, feedbackData, keys,
                   feedbackList>>

\* the awaited call of submitFeedback or processWithFHE throws: catch (e)
callThrows(c) ==
    /\ pc[c] \in {"submit_setData", "submit_getKeys", "submit_setKeys",
                  "process_getData", "process_setData"}
    /\ transactionStatus' = [transactionStatus EXCEPT ![c] = "error"]
    /\ Return(c)
    /\ UNCHANGED <<contractState, data, provider, feedbackList>>

FrontendNext ==
    \/ \E c \in Clients : onWalletSelect(c)
    \/ \E c \in Clients : onDisconnect(c)
    \/ \E c \in Clients : loadFeedbacks(c)
    \/ \E c \in Clients : loadFeedbacks_getKeys(c)
    \/ \E c \in Clients : loadFeedbacks_getRecords(c)
    \/ \E c \in Clients, id \in FrontendIds, in \in NewFeedbackInputs :
           submitFeedback(c, id, in)
    \/ \E c \in Clients : submitFeedback_setData(c)
    \/ \E c \in Clients : submitFeedback_getKeys(c)
    \/ \E c \in Clients : submitFeedback_setKeys(c)
    \/ \E c \in Clients, id \in FrontendIds : processWithFHE(c, id)
    \/ \E c \in Clients : processWithFHE_getData(c)
    \/ \E c \in Clients, score \in SatisfactionScores :
           processWithFHE_setData(c, score)
    \/ \E c \in Clients : callThrows(c)

FrontendSpec == Init /\ [][FrontendNext]_vars

(***************************************************************************)
(* The accumulator on its own: submissions over the range of ratings and   *)
(* response times the score formula distinguishes, and aggregate updates.  *)
(***************************************************************************)
\* ratings at both ends of 0..5; response times at 0, at the last value
\* whose tenth is at most 100, and at the first whose tenth exceeds it
AccumulatorInputs ==
    { [serviceType |-> 1, rating |-> 5, responseTime |-> 0, comment |-> 7],
      [serviceType |-> 1, rating |-> 3, responseTime |-> 30, comment |-> 7],
      [serviceType |-> 1, rating |-> 0, responseTime |-> 1009, comment |-> 7],
      [serviceType |-> 1, rating |-> 5, responseTime |-> 1010, comment |-> 7],
      [serviceType |-> 1, rating |-> 0, responseTime |-> 1010, comment |-> 7] }

AccumulatorNext ==
    \/ \E in \in AccumulatorInputs : submitEncryptedFeedback(Deployer, in)
    \/ \E feedbackId \in 0..(feedbackCount + 1) :
           updateServiceAggregates(feedbackId)

AccumulatorSpec == Init /\ [][AccumulatorNext]_vars

(***************************************************************************)
(* The error taxonomy of the specification, as the reverts of the code.    *)
(***************************************************************************)
Unauthorized == {"Not admin", "Not authorized"}

NotFound == "No data"

AlreadyRevealed == "Already decrypted"

InvalidRequest == "Invalid request"

ProofInvalid == "Invalid proof"

\* the service type a request id is bound to (0: none)
Target(requestId) == requestToServiceType[requestId]

IsBound(requestId) == Target(requestId) # 0

IsRevealed(serviceType) == decryptedAggregates[serviceType].isRevealed

HasAggregate(serviceType) ==
    FHE_isInitialized(serviceAggregates[serviceType].encryptedFeedbackCount)

\* the decryption of the handles a request asked for, and its signature
TrueCleartexts(requestId) == DecryptHandles(requestedHandles[requestId])

TrueProof(requestId) ==
    KmsSignature(requestedHandles[requestId], TrueCleartexts(requestId))

\* the proof is the oracle's signature over exactly this request and bundle
ProofVerifies(requestId, cleartexts, proof) ==
    /\ requestedHandles[requestId] # NoHandles
    /\ cleartexts = TrueCleartexts(requestId)
    /\ proof = TrueProof(requestId)

(***************************************************************************)
(* C1: a DecryptedAggregate is write-once.  Once isRevealed is true for a  *)
(* service type it stays true and the snapshot never changes again, and    *)
(* every later decryptAggregateData whose request id is bound to that      *)
(* service type fails with AlreadyRevealed, whatever it delivers, a second *)
(* delivery of the same request id included.                               *)
(***************************************************************************)
C1_RevealedIsRefused ==
    \A r \in RequestIds, c \in CleartextInputs, p \in ProofInputs :
        (IsBound(r) /\ IsRevealed(Target(r)))
            => decryptAggregateDataResult(r, c, p) = AlreadyRevealed

C1_SnapshotKept ==
    \A s \in ServiceTypeIds :
        IsRevealed(s) => decryptedAggregates'[s] = decryptedAggregates[s]

C1_WriteOnce == []C1_RevealedIsRefused /\ [][C1_SnapshotKept]_vars

\* revealed through the only request id there is: delivering it again is refused
C1_Witness ==
    /\ counterRequest = 1
    /\ IsBound(0)
    /\ IsRevealed(Target(0))
    /\ decryptAggregateDataResult(0, TrueCleartexts(0), TrueProof(0)) = AlreadyRevealed

(***************************************************************************)
(* C2: requestAggregateDecryption by a sender without manager capability   *)
(* fails with Unauthorized and changes nothing (no request id is bound, no *)
(* aggregate or snapshot changes), whatever the state of the service type  *)
(* it asks for.                                                            *)
(***************************************************************************)
C2_NonManagerRefused ==
    \A sender \in Address, s \in ServiceTypeIds :
        ~authorizedManagers[sender]
            => requestAggregateDecryptionResult(sender, s) \in Unauthorized

\* a step that changes the state is no request of a non-manager
C2_NonManagerChangesNothing ==
    vars' # vars
        => \A sender \in Address, s \in ServiceTypeIds :
               ~authorizedManagers[sender] => ~requestAggregateDecryption(sender, s)

C2_ManagerGate == []C2_NonManagerRefused /\ [][C2_NonManagerChangesNothing]_vars

\* a non-manager is refused an aggregate that a manager could have revealed
C2_Witness ==
    \E sender \in Address, manager \in Address :
        /\ ~authorizedManagers[sender]
        /\ authorizedManagers[manager]
        /\ HasAggregate(1) /\ ~IsRevealed(1)
        /\ requestAggregateDecryptionResult(manager, 1) = "ok"
        /\ requestAggregateDecryptionResult(sender, 1) \in Unauthorized

(***************************************************************************)
(* C3: requestAggregateDecryption by a manager fails with NotFound when    *)
(* the aggregate of the service type was never initialized and with        *)
(* AlreadyRevealed when its snapshot is already revealed; a request id is  *)
(* bound only by a manager's request for an initialized, unrevealed one.   *)
(***************************************************************************)
C3_ManagerRefused ==
    \A sender \in Address, s \in ServiceTypeIds :
        authorizedManagers[sender]
            => /\ ~HasAggregate(s)
                      => requestAggregateDecryptionResult(sender, s) = NotFound
               /\ IsRevealed(s)
                      => requestAggregateDecryptionResult(sender, s) = AlreadyRevealed

C3_BindingNeedsGuards ==
    (requestToServiceType' # requestToServiceType \/ oracleVars' # oracleVars)
        => \E sender \in Address, s \in ServiceTypeIds :
               /\ requestAggregateDecryption(sender, s)
               /\ authorizedManagers[sender]
               /\ HasAggregate(s)
               /\ ~IsRevealed(s)

C3_RequestGuards == []C3_ManagerRefused /\ [][C3_BindingNeedsGuards]_vars

\* a manager is refused both ways: service type 1 is revealed, 2 has no aggregate
C3_Witness ==
    \E manager \in Address :
        /\ authorizedManagers[manager]
        /\ IsRevealed(1)
        /\ requestAggregateDecryptionResult(manager, 1) = AlreadyRevealed
        /\ ~HasAggregate(2)
        /\ requestAggregateDecryptionResult(manager, 2) = NotFound

(***************************************************************************)
(* C4: decryptAggregateData with a request id that no request ever bound   *)
(* fails with InvalidRequest and changes no DecryptedAggregate, for every  *)
(* cleartext bundle and proof.                                             *)
(***************************************************************************)
C4_UnboundRefused ==
    \A r \in RequestIds, c \in CleartextInputs, p \in ProofInputs :
        requestedHandles[r] = NoHandles
            => decryptAggregateDataResult(r, c, p) = InvalidRequest

\* a step that changes a snapshot is no delivery under an unbound id
C4_UnboundWritesNothing ==
    decryptedAggregates' # decryptedAggregates
        => \A r \in RequestIds, c \in CleartextInputs, p \in ProofInputs :
               requestedHandles[r] = NoHandles => ~decryptAggregateData(r, c, p)

C4_UnboundRequest == []C4_UnboundRefused /\ [][C4_UnboundWritesNothing]_vars

\* a pending reveal's own cleartexts and proof, under an id that was never bound
C4_Witness ==
    \E r \in Requested :
        /\ ~IsRevealed(Target(r))
        /\ requestedHandles[counterRequest] = NoHandles
        /\ decryptAggregateDataResult(r, TrueCleartexts(r), TrueProof(r)) = "ok"
        /\ decryptAggregateDataResult(counterRequest, TrueCleartexts(r), TrueProof(r))
               = InvalidRequest

(***************************************************************************)
(* C5: while the target of a bound request id is not yet revealed,         *)
(* decryptAggregateData with a proof that does not verify fails with       *)
(* ProofInvalid; the failed call reveals nothing and no request id ever    *)
(* loses its binding, so the same request id delivered with the valid      *)
(* cleartexts and proof still succeeds and reveals the target.             *)
(***************************************************************************)
C5_BadProofRefused ==
    \A r \in RequestIds :
        (IsBound(r) /\ ~IsRevealed(Target(r)))
            => /\ \A c \in CleartextInputs, p \in ProofInputs :
                      ~ProofVerifies(r, c, p)
                          => decryptAggregateDataResult(r, c, p) = ProofInvalid
               /\ decryptAggregateDataResult(r, TrueCleartexts(r), TrueProof(r)) = "ok"

\* a snapshot changes only by the delivery of a request's verifying proof
C5_OnlyValidProofReveals ==
    decryptedAggregates' # decryptedAggregates
        => \E r \in Requested :
               /\ IsBound(r)
               /\ ~IsRevealed(Target(r))
               /\ decryptAggregateData(r, TrueCleartexts(r), TrueProof(r))
               /\ decryptedAggregates'[Target(r)].isRevealed

C5_BindingKept ==
    \A r \in RequestIds :
        IsBound(r) => requestToServiceType'[r] = requestToServiceType[r]

C5_ValidRetryReveals ==
    \A r \in Requested :
        (/\ IsBound(r)
         /\ ~IsRevealed(Target(r))
         /\ decryptAggregateData(r, TrueCleartexts(r), TrueProof(r)))
            => decryptedAggregates'[Target(r)].isRevealed

C5_RetryAllowed ==
    /\ []C5_BadProofRefused
    /\ [][C5_OnlyValidProofReveals]_vars
    /\ [][C5_BindingKept]_vars
    /\ [][C5_ValidRetryReveals]_vars

\* a pending request for which a forged proof, tampered cleartexts and the
\* proof issued for another request are all refused, and the valid one accepted
C5_Witness ==
    \E r \in Requested, other \in Requested :
        /\ ~IsRevealed(Target(r))
        /\ requestedHandles[other] # requestedHandles[r]
        /\ decryptAggregateDataResult(r, TrueCleartexts(r), ForgedProof) = ProofInvalid
        /\ decryptAggregateDataResult(r, TamperedCleartexts, TrueProof(r)) = ProofInvalid
        /\ decryptAggregateDataResult(r, TrueCleartexts(other), TrueProof(other))
               = ProofInvalid
        /\ decryptAggregateDataResult(r, TrueCleartexts(r), TrueProof(r)) = "ok"

(***************************************************************************)
(* C6: when N feedbacks have been submitted, all of one service type, and  *)
(* each of their ids has been passed to updateServiceAggregates exactly    *)
(* once, the feedback count of that service type's aggregate is N.         *)
(***************************************************************************)
Range(seq) == {seq[i] : i \in 1..Len(seq)}

EachAggregatedOnce ==
    /\ Len(aggregated) = feedbackCount
    /\ Range(aggregated) = 1..feedbackCount

C6_CountEqualsN ==
    \A s \in ServiceTypeIds :
        (/\ feedbackCount >= 1
         /\ \A i \in 1..feedbackCount :
                feedbacks[i].encryptedServiceType = FHE_asEuint32(s)
         /\ EachAggregatedOnce)
            => serviceAggregates[s].encryptedFeedbackCount
                   = FHE_asEuint32(feedbackCount)

(***************************************************************************)
(* C7: every updateServiceAggregates leaves the response average at        *)
(* (responseAvg * count + responseTime) div (count + 1), with responseAvg  *)
(* and count the values before the update.                                 *)
(***************************************************************************)
RunningMean(avg, count, responseTime) ==
    Div32(Add32(Mul32(avg, count), responseTime), Add32(count, U32(1)))

C7_StepIsRunningMean ==
    \A feedbackId \in FeedbackIds :
        updateServiceAggregates(feedbackId)
            => LET before == serviceAggregates[PlaceholderServiceType]
                   after == serviceAggregates'[PlaceholderServiceType]
               IN Plain(after.encryptedResponseAvg)
                      = RunningMean(Plain(before.encryptedResponseAvg),
                                    Plain(before.encryptedFeedbackCount),
                                    Plain(feedbacks[feedbackId].encryptedResponseTime))

C7_RunningMean == [][C7_StepIsRunningMean]_vars

(***************************************************************************)
(* C8: a successful decryptAggregateData with cleartexts (T, A, C, S)      *)
(* stores avgRating = T div C, avgResponseTime = A, feedbackCount = C,     *)
(* improvementScore = S and isRevealed = true for the service type bound   *)
(* to the request id, and changes no other service type's snapshot.        *)
(***************************************************************************)
C8_StoredSnapshot ==
    \A r \in RequestIds, c \in CleartextInputs, p \in ProofInputs :
        (decryptAggregateDataResult(r, c, p) = "ok" /\ decryptAggregateData(r, c, p))
            => /\ decryptedAggregates'[Target(r)]
                      = [avgRating |-> U32(ToInt(c[1]) \div ToInt(c[3])),
                         avgResponseTime |-> c[2],
                         feedbackCount |-> c[3],
                         improvementScore |-> c[4],
                         isRevealed |-> TRUE]
               /\ \A s \in ServiceTypeIds \ {Target(r)} :
                      decryptedAggregates'[s] = decryptedAggregates[s]

C8_RevealStores == [][C8_StoredSnapshot]_vars

\* a revealed snapshot whose rating total is not a multiple of its count
C8_Witness ==
    \E r \in Requested :
        LET c == TrueCleartexts(r)
        IN /\ IsRevealed(Target(r))
           /\ ToInt(c[3]) >= 2
           /\ ToInt(c[1]) % ToInt(c[3]) # 0
           /\ decryptedAggregates[Target(r)].feedbackCount = c[3]
           /\ decryptedAggregates[Target(r)].avgRating
                  = U32(ToInt(c[1]) \div ToInt(c[3]))

(***************************************************************************)
(* C9: feedback ids come from a monotonic counter.  The k-th successful    *)
(* submitEncryptedFeedback stores its record under id k (from 1), the      *)
(* stored records are exactly those of ids 1..feedbackCount, each under    *)
(* its own id, so feedbackCount is the number of stored records.           *)
(***************************************************************************)
StoredIds == {i \in FeedbackIds : feedbacks[i] # EmptyFeedback}

\* the submissions made so far, counted from the citizens' indices
Submissions ==
    Cardinality({e \in Address \X (1..MaxCalls) : e[2] <= Len(citizenFeedbacks[e[1]])})

C9_IdsAreCounter ==
    /\ StoredIds = 1..feedbackCount
    /\ Cardinality(StoredIds) = feedbackCount
    /\ Submissions = feedbackCount
    /\ \A i \in StoredIds : feedbacks[i].id = i

C9_KthSubmitGetsK ==
    \A sender \in Address, in \in FeedbackInputs :
        submitEncryptedFeedback(sender, in)
            => LET k == Submissions + 1
               IN /\ feedbacks[k] = EmptyFeedback
                  /\ feedbacks'[k].id = k
                  /\ feedbackCount' = k
                  /\ \A i \in FeedbackIds \ {k} : feedbacks'[i] = feedbacks[i]

C9_MonotonicIds == []C9_IdsAreCounter /\ [][C9_KthSubmitGetsK]_vars

\* three records, from two citizens
C9_Witness ==
    /\ feedbackCount = 3
    /\ StoredIds = {1, 2, 3}
    /\ \A citizen \in Address : Len(citizenFeedbacks[citizen]) >= 1

(***************************************************************************)
(* C10: identity binding.  Every stored record's citizen is the caller of  *)
(* the submitEncryptedFeedback that created it, and each citizen's index   *)
(* holds exactly the ids of that citizen's records, in submission order;   *)
(* no id is in two citizens' indices.                                      *)
(***************************************************************************)
IdsOf(citizen) == {i \in StoredIds : feedbacks[i].citizen = citizen}

Ascending(seq) == \A i, j \in 1..Len(seq) : i < j => seq[i] < seq[j]

C10_IndexMatchesRecords ==
    /\ \A i \in StoredIds : feedbacks[i].citizen \in Address
    /\ \A citizen \in Address :
           /\ Range(citizenFeedbacks[citizen]) = IdsOf(citizen)
           /\ Len(citizenFeedbacks[citizen]) = Cardinality(IdsOf(citizen))
           /\ Ascending(citizenFeedbacks[citizen])
    /\ \A c1, c2 \in Address :
           c1 # c2 => Range(citizenFeedbacks[c1]) \cap Range(citizenFeedbacks[c2]) = {}

C10_SubmitBindsCaller ==
    \A sender \in Address, in \in FeedbackInputs :
        submitEncryptedFeedback(sender, in)
            => /\ feedbacks'[feedbackCount'].citizen = sender
               /\ citizenFeedbacks'[sender]
                      = Append(citizenFeedbacks[sender], feedbackCount')
               /\ \A other \in Address \ {sender} :
                      citizenFeedbacks'[other] = citizenFeedbacks[other]

C11_RecordKept ==
    \A i \in FeedbackIds :
        feedbacks[i] # EmptyFeedback => feedbacks'[i] = feedbacks[i]

C11_RecordsImmutable == [][C11_RecordKept]_vars

\* the first record, after a second submission, an update and a reveal
C11_Witness ==
    /\ feedbackCount = 2
    /\ feedbacks[1] # EmptyFeedback
    /\ feedbacks[2] # EmptyFeedback
    /\ aggregated # <<>>
    /\ IsRevealed(PlaceholderServiceType)

(***************************************************************************)
(* C12: a ServiceAggregate changes only in updateServiceAggregates and is  *)
(* never deleted: every other operation leaves all aggregates unchanged,   *)
(* an initialized aggregate stays initialized and its feedback count never *)
(* decreases from one state to the next.                                   *)
(***************************************************************************)
C12_OnlyUpdateWrites ==
    serviceAggregates' # serviceAggregates
        => \E feedbackId \in FeedbackIds : updateServiceAggregates(feedbackId)

C12_AggregateKept ==
    \A s \in ServiceTypeIds :
        HasAggregate(s)
            => /\ FHE_isInitialized(serviceAggregates'[s].encryptedFeedbackCount)
               /\ Geq32(Plain(serviceAggregates'[s].encryptedFeedbackCount),
                        Plain(serviceAggregates[s].encryptedFeedbackCount))

C12_AggregateMonotone ==
    [][C12_OnlyUpdateWrites]_vars /\ [][C12_AggregateKept]_vars

\* an aggregate updated twice, then requested and revealed
C12_Witness ==
    /\ Plain(serviceAggregates[PlaceholderServiceType].encryptedFeedbackCount) = U32(2)
    /\ feedbackCount >= 1
    /\ IsRevealed(PlaceholderServiceType)

(***************************************************************************)
(* C13: updateServiceAggregates with a feedback id that no submission      *)
(* allocated (0, or greater than feedbackCount) fails with NotFound and    *)
(* leaves every aggregate unchanged.                                       *)
(***************************************************************************)
UnallocatedIds == FeedbackIds \ (1..feedbackCount)

\* a step that changes an aggregate is no update with an unallocated id
C13_UnknownIdWritesNothing ==
    serviceAggregates' # serviceAggregates
        => \A feedbackId \in UnallocatedIds : ~updateServiceAggregates(feedbackId)

C13_UnknownFeedback == [][C13_UnknownIdWritesNothing]_vars

(***************************************************************************)
(* C14: a decryption request is consumed by the reveal it completes: after *)
(* a successful decryptAggregateData for request id r, r is no longer      *)
(* bound to any service type.                                              *)
(***************************************************************************)
C14_CompletedIdUnbound ==
    decryptedAggregates' # decryptedAggregates
        => \A r \in Requested, c \in CleartextInputs, p \in ProofInputs :
               (decryptAggregateDataResult(r, c, p) = "ok"
                    /\ decryptAggregateData(r, c, p))
                   => requestToServiceType'[r] = 0

C14_RequestConsumed == [][C14_CompletedIdUnbound]_vars

(***************************************************************************)
(* C15: the administrator is the deployer and never changes; the manager   *)
(* set changes only by an authorizeManager call of the administrator,      *)
(* which adds the named manager; the call of anyone else fails with        *)
(* Unauthorized; a manager once authorized stays authorized.               *)
(***************************************************************************)
C15_OnlyAdminAuthorizes ==
    /\ govAdmin = Deployer
    /\ \A sender \in Address \ {govAdmin}, manager \in Address :
           authorizeManagerResult(sender, manager) \in Unauthorized

C15_ManagerSetStep ==
    /\ govAdmin' = govAdmin
    /\ \A a \in Address : authorizedManagers[a] => authorizedManagers'[a]
    /\ authorizedManagers' # authorizedManagers
           => \E manager \in Address :
                  /\ authorizeManager(govAdmin, manager)
                  /\ authorizedManagers'
                         = [authorizedManagers EXCEPT ![manager] = TRUE]

C15_Administration == []C15_OnlyAdminAuthorizes /\ [][C15_ManagerSetStep]_vars

\* a manager that is not the administrator cannot authorize the administrator
C15_Witness ==
    \E manager \in Address \ {govAdmin} :
        /\ authorizedManagers[manager]
        /\ ~authorizedManagers[govAdmin]
        /\ authorizeManagerResult(manager, govAdmin) \in Unauthorized
        /\ authorizeManagerResult(govAdmin, govAdmin) = "ok"

(***************************************************************************)
(* C16 as stated: nothing that identifies the submitter is stored: the     *)
(* ledger after a submitEncryptedFeedback is the one any other caller      *)
(* would have left with the same input.                                    *)
(***************************************************************************)
C16_LedgerSameForAnyCaller ==
    \A sender \in Address, in \in FeedbackInputs :
        submitEncryptedFeedback(sender, in)
            => \A other \in Address :
                   /\ feedbacks' = [feedbacks EXCEPT ![NewId] = NewFeedback(other, in)]
                   /\ citizenFeedbacks'
                          = [citizenFeedbacks EXCEPT ![other] = Append(@, NewId)]

C16_CallerOnlyInCitizen ==
    \A sender \in Address, in \in FeedbackInputs :
        submitEncryptedFeedback(sender, in)
            => /\ feedbacks'[NewId].citizen = sender
               /\ Len(citizenFeedbacks'[sender]) = Len(citizenFeedbacks[sender]) + 1
               /\ \A other \in Address :
                      [feedbacks'[NewId] EXCEPT !.citizen = other]
                          = [NewFeedback(other, in) EXCEPT !.citizen = other]

C17_RecordBytesKept ==
    \A id \in FrontendIds :
        Len(data[FeedbackKey(id)]) > 0
            => data'[FeedbackKey(id)] = data[FeedbackKey(id)]

C17_FrontendRecordImmutable == [][C17_RecordBytesKept]_vars

(***************************************************************************)
(* C18: per service type the lifecycle only moves forward, one stage at a  *)
(* time, through Uninitialized (0), Accumulating (1), RevealPending (2)    *)
(* and Revealed (3): a revealed service type has an initialized aggregate  *)
(* and a request id that was bound to it while the aggregate was           *)
(* initialized, and no step moves a service type to an earlier stage.      *)
(***************************************************************************)
Lifecycle(s) ==
    IF IsRevealed(s) THEN 3
    ELSE IF ~HasAggregate(s) THEN 0
    ELSE IF \E r \in Requested : Target(r) = s THEN 2
    ELSE 1

\* the handles a request saved were those of an initialized aggregate
BoundWhileInitialized(r) ==
    \A i \in 1..Len(requestedHandles[r]) : FHE_isInitialized(requestedHandles[r][i])

C18_RevealedWasRequested ==
    \A s \in ServiceTypeIds :
        IsRevealed(s)
            => /\ HasAggregate(s)
               /\ \E r \in Requested : Target(r) = s /\ BoundWhileInitialized(r)

C18_StageForward ==
    \A s \in ServiceTypeIds :
        \/ Lifecycle(s)' = Lifecycle(s)
        \/ Lifecycle(s)' = Lifecycle(s) + 1

C18_Lifecycle == []C18_RevealedWasRequested /\ [][C18_StageForward]_vars

\* service type 1 went through all stages and was updated after its reveal
C18_Witness ==
    /\ Lifecycle(1) = 3
    /\ Lifecycle(2) = 0
    /\ \E r \in Requested :
           /\ Target(r) = 1
           /\ requestedHandles[r] # Ciphertexts(serviceAggregates[1])

(***************************************************************************)
(* C19 as stated: decryptAggregateData checks, in this order, that the     *)
(* request id is bound (else InvalidRequest), that the proof verifies      *)
(* (else ProofInvalid) and that the target is not yet revealed (else       *)
(* AlreadyRevealed).                                                       *)
(***************************************************************************)
C19_ProofBeforeRevealed ==
    \A r \in RequestIds, c \in CleartextInputs, p \in ProofInputs :
        decryptAggregateDataResult(r, c, p)
            = IF ~IsBound(r) THEN InvalidRequest
              ELSE IF ~ProofVerifies(r, c, p) THEN ProofInvalid
              ELSE IF IsRevealed(Target(r)) THEN AlreadyRevealed
              ELSE "ok"

(***************************************************************************)
(* C19 amended: the order is request id bound (else InvalidRequest),       *)
(* target not yet revealed (else AlreadyRevealed), proof verifies (else    *)
(* ProofInvalid); a bound request id with an invalid proof and a revealed  *)
(* target fails with AlreadyRevealed.                                      *)
(***************************************************************************)
C19_RevealedBeforeProof ==
    \A r \in RequestIds, c \in CleartextInputs, p \in ProofInputs :
        decryptAggregateDataResult(r, c, p)
            = IF ~IsBound(r) THEN InvalidRequest
              ELSE IF IsRevealed(Target(r)) THEN AlreadyRevealed
              ELSE IF ~ProofVerifies(r, c, p) THEN ProofInvalid
              ELSE "ok"

\* a bound request id, a revealed target and a forged proof
C19_Witness ==
    \E r \in Requested :
        /\ IsBound(r)
        /\ IsRevealed(Target(r))
        /\ ~ProofVerifies(r, TrueCleartexts(r), ForgedProof)
        /\ decryptAggregateDataResult(r, TrueCleartexts(r), ForgedProof)
               = AlreadyRevealed

(***************************************************************************)
(* C20: updateServiceAggregates is not idempotent.  No call is refused,    *)
(* whether or not its feedback id was aggregated before: every call adds 1 *)
(* to the count of the aggregate and the feedback's rating to its total    *)
(* rating, so two calls with one id add 2 and twice the rating.            *)
(***************************************************************************)
C20_NeverRefused ==
    /\ \A feedbackId \in FeedbackIds :
           updateServiceAggregatesResult(feedbackId) = "ok"
    /\ Plain(serviceAggregates[PlaceholderServiceType].encryptedFeedbackCount)
           = U32(Len(aggregated))

C20_EveryCallCounts ==
    aggregated' # aggregated
        => \A feedbackId \in FeedbackIds :
               updateServiceAggregates(feedbackId)
                   => LET before == serviceAggregates[PlaceholderServiceType]
                          after == serviceAggregates'[PlaceholderServiceType]
                      IN  /\ Plain(after.encryptedFeedbackCount)
                                 = Add32(Plain(before.encryptedFeedbackCount), U32(1))
                          /\ Plain(after.encryptedTotalRating)
                                 = Add32(Plain(before.encryptedTotalRating),
                                         Plain(feedbacks[feedbackId].encryptedRating))

C20_DoubleCounts == []C20_NeverRefused /\ [][C20_EveryCallCounts]_vars

\* the same feedback aggregated twice: a count of 2, twice its rating
C20_Witness ==
    /\ aggregated = <<1, 1>>
    /\ Plain(feedbacks[1].encryptedRating) = U32(5)
    /\ Plain(serviceAggregates[PlaceholderServiceType].encryptedFeedbackCount) = U32(2)
    /\ Plain(serviceAggregates[PlaceholderServiceType].encryptedTotalRating) = U32(10)

(***************************************************************************)
(* C21: every updateServiceAggregates changes the aggregate of service     *)
(* type 1 and no other, whatever service type the feedback carries; so in  *)
(* every reachable state no aggregate of another service type is           *)
(* initialized, and requestAggregateDecryption for another service type    *)
(* fails for every caller.                                                 *)
(***************************************************************************)
C21_OthersNeverInitialized ==
    \A s \in ServiceTypeIds \ {1} :
        /\ ~HasAggregate(s)
        /\ serviceAggregates[s] = EmptyAggregate
        /\ \A sender \in Address :
               requestAggregateDecryptionResult(sender, s) # "ok"

C21_UpdateWritesOne ==
    aggregated' # aggregated
        => /\ serviceAggregates'[1] # serviceAggregates[1]
           /\ \A s \in ServiceTypeIds \ {1} :
                  serviceAggregates'[s] = serviceAggregates[s]

C21_PlaceholderOnly ==
    []C21_OthersNeverInitialized /\ [][C21_UpdateWritesOne]_vars

\* a feedback of service type 2 was aggregated: it went into aggregate 1,
\* and a manager's request for service type 2 finds no data
C21_Witness ==
    \E i \in 1..Len(aggregated), manager \in Address :
        /\ feedbacks[aggregated[i]].encryptedServiceType = FHE_asEuint32(2)
        /\ HasAggregate(1)
        /\ ~HasAggregate(2)
        /\ authorizedManagers[manager]
        /\ requestAggregateDecryptionResult(manager, 2) = NotFound

(***************************************************************************)
(* C22: every updateServiceAggregates with a feedback of rating r and      *)
(* response time t leaves the improvement score at                         *)
(* (previous + ((r * 20 + (100 - t div 10)) div 2)) div 2, in integer      *)
(* division and arithmetic modulo 2^32; the previous score is 0 at the     *)
(* first update of a service type.                                         *)
(***************************************************************************)
ImprovementScore(previous, r, t) ==
    Div32(Add32(previous,
                Div32(Add32(Mul32(r, U32(20)),
                            Sub32(U32(100), Div32(t, U32(10)))),
                      U32(2))),
          U32(2))

C22_StepIsScoreFormula ==
    aggregated' # aggregated
        => \A feedbackId \in FeedbackIds :
               updateServiceAggregates(feedbackId)
                   => LET before == serviceAggregates[1]
                          after == serviceAggregates'[1]
                          feedback == feedbacks[feedbackId]
                          previous ==
                              IF HasAggregate(1)
                              THEN Plain(before.encryptedImprovementScore)
                              ELSE Zero32
                      IN  /\ FHE_isInitialized(after.encryptedImprovementScore)
                          /\ Plain(after.encryptedImprovementScore)
                                 = ImprovementScore(
                                       previous,
                                       Plain(feedback.encryptedRating),
                                       Plain(feedback.encryptedResponseTime))

C22_ScoreFormula == [][C22_StepIsScoreFormula]_vars

\* scores the formula gives, spelled out: (0 + (60 + 97) div 2) div 2 = 39
\* for rating 3 and response time 30, then (39 + (100 + 100) div 2) div 2 = 69
\* for rating 5 and response time 0
C22_Witness ==
    /\ aggregated = <<1, 2>>
    /\ Plain(feedbacks[1].encryptedRating) = U32(3)
    /\ Plain(feedbacks[1].encryptedResponseTime) = U32(30)
    /\ Plain(feedbacks[2].encryptedRating) = U32(5)
    /\ Plain(feedbacks[2].encryptedResponseTime) = U32(0)
    /\ feedbacks[1].timestamp < feedbacks[2].timestamp
    /\ Plain(serviceAggregates[1].encryptedImprovementScore) = U32(69)

(***************************************************************************)
(* C23: after any sequence of updateServiceAggregates calls on distinct    *)
(* ids of stored feedbacks the total rating is the sum, modulo 2^32, of    *)
(* the ratings of the aggregated records: the equality holds before the    *)
(* first update and every update with a stored id not aggregated before    *)
(* keeps it.  For the ratings 5, 3, 4 the total is 12.                     *)
(***************************************************************************)
RECURSIVE SumRatings(_)
SumRatings(ids) ==
    IF ids = <<>> THEN Zero32
    ELSE Add32(SumRatings(SubSeq(ids, 1, Len(ids) - 1)),
               Plain(feedbacks[ids[Len(ids)]].encryptedRating))

C23_TotalIsSum ==
    Plain(serviceAggregates[1].encryptedTotalRating) = SumRatings(aggregated)

C23_SumKept ==
    (aggregated' # aggregated /\ C23_TotalIsSum)
        => \A feedbackId \in (1..feedbackCount) \ Range(aggregated) :
               updateServiceAggregates(feedbackId) => C23_TotalIsSum'

\* a stored record with the given rating and response time
RecordOf(r, t) ==
    [EmptyFeedback EXCEPT !.encryptedRating = FHE_asEuint32(r),
                          !.encryptedResponseTime = FHE_asEuint32(t)]

\* the aggregate after updates with records of ratings 5, 3, 4
ExampleAggregate ==
    UpdatedAggregate(
        UpdatedAggregate(UpdatedAggregate(EmptyAggregate, RecordOf(5, 10)),
                         RecordOf(3, 30)),
        RecordOf(4, 20))

C23_ExampleIsTwelve ==
    /\ aggregated = <<>> => C23_TotalIsSum
    /\ Plain(ExampleAggregate.encryptedTotalRating) = U32(12)
    /\ Plain(ExampleAggregate.encryptedFeedbackCount) = U32(3)

C23_TotalRating == []C23_ExampleIsTwelve /\ [][C23_SumKept]_vars

\* two stored feedbacks of ratings 5 and 3, each aggregated once: 8
C23_Witness ==
    /\ Len(aggregated) = 2
    /\ Range(aggregated) = {1, 2}
    /\ feedbackCount = 2
    /\ SumRatings(aggregated) = U32(8)
    /\ Plain(serviceAggregates[1].encryptedTotalRating) = U32(8)

(***************************************************************************)
(* C24: in every reachable state an initialized aggregate has a feedback   *)
(* count of at least 1, and so have the handles every request saved: a     *)
(* decryptAggregateData that delivers the true decryption of the requested *)
(* handles never divides by zero in avgRating = totalRating / count.       *)
(***************************************************************************)
C24_CountAtLeastOne ==
    /\ \A s \in ServiceTypeIds :
           HasAggregate(s)
               => Geq32(Plain(serviceAggregates[s].encryptedFeedbackCount), U32(1))
    /\ \A r \in Requested :
           /\ TrueCleartexts(r)[3] # Zero32
           /\ decryptAggregateDataResult(r, TrueCleartexts(r), TrueProof(r))
                  \in {"ok", AlreadyRevealed}

\* a faithful delivery is pending and will be accepted; the aggregate was
\* initialized and first incremented by one and the same call
C24_Witness ==
    \E r \in Requested :
        /\ aggregated = <<0>>
        /\ Plain(serviceAggregates[1].encryptedFeedbackCount) = U32(1)
        /\ TrueCleartexts(r)[3] = U32(1)
        /\ decryptAggregateDataResult(r, TrueCleartexts(r), TrueProof(r)) = "ok"

(***************************************************************************)
(* C25: the revealed snapshot is the aggregate as it was at the            *)
(* requestAggregateDecryption that issued the completing request id.       *)
(* updateServiceAggregates is never refused, neither while a request is    *)
(* pending nor after the reveal; an update changes the encrypted aggregate *)
(* and leaves the handles saved by every request and every revealed        *)
(* snapshot as they are.                                                   *)
(***************************************************************************)
C25_RevealedIsRequestedSnapshot ==
    /\ \A s \in ServiceTypeIds :
           IsRevealed(s)
               => \E r \in Requested :
                      /\ Target(r) = s
                      /\ decryptedAggregates[s] = RevealedAggregate(TrueCleartexts(r))
    /\ \A feedbackId \in FeedbackIds :
           ((\E r \in Requested : IsBound(r))
               => updateServiceAggregatesResult(feedbackId) = "ok")

\* a request saves the handles the aggregate has at the time of the call
C25_RequestSavesHandles ==
    counterRequest' # counterRequest
        => requestedHandles'[counterRequest]
               = Ciphertexts(serviceAggregates[requestToServiceType'[counterRequest]])

C25_UpdateLeavesSnapshots ==
    aggregated' # aggregated
        => /\ serviceAggregates' # serviceAggregates
           /\ decryptedAggregates' = decryptedAggregates
           /\ requestedHandles' = requestedHandles

\* the reveal writes the decryption of the handles of the completing id
C25_RevealWritesSaved ==
    decryptedAggregates' # decryptedAggregates
        => \A r \in Requested, c \in CleartextInputs, p \in ProofInputs :
               decryptAggregateData(r, c, p)
                   => decryptedAggregates'[Target(r)]
                          = RevealedAggregate(TrueCleartexts(r))

C25_SnapshotAtRequest ==
    /\ []C25_RevealedIsRequestedSnapshot
    /\ [][C25_RequestSavesHandles]_vars
    /\ [][C25_UpdateLeavesSnapshots]_vars
    /\ [][C25_RevealWritesSaved]_vars

\* requested after one update, updated twice more, revealed: the snapshot
\* shows a count of 1 and the encrypted aggregate a count of 3
C25_Witness ==
    /\ IsRevealed(1)
    /\ decryptedAggregates[1].feedbackCount = U32(1)
    /\ Plain(serviceAggregates[1].encryptedFeedbackCount) = U32(3)
    /\ \A feedbackId \in FeedbackIds :
           updateServiceAggregatesResult(feedbackId) = "ok"

(***************************************************************************)
(* C26: requestAggregateDecryption has no guard against a pending request. *)
(* While a request for a service type is bound and the service type is not *)
(* revealed, a further request of a manager for it succeeds and binds the  *)
(* next request id; every bound id stays bound to its service type; each   *)
(* of them completes the reveal when delivered with its valid proof; and   *)
(* once one has, the others are refused, so at most one completes.         *)
(***************************************************************************)
Pending(r) == IsBound(r) /\ ~IsRevealed(Target(r))

C26_PendingAllowsMore ==
    \A r \in Requested :
        /\ Pending(r)
               => /\ \A manager \in Address :
                         authorizedManagers[manager]
                             => requestAggregateDecryptionResult(manager, Target(r))
                                    = "ok"
                  /\ decryptAggregateDataResult(r, TrueCleartexts(r), TrueProof(r))
                         = "ok"
        /\ (IsBound(r) /\ IsRevealed(Target(r)))
               => decryptAggregateDataResult(r, TrueCleartexts(r), TrueProof(r))
                      = AlreadyRevealed

C26_RequestBindsNextId ==
    /\ \A r \in RequestIds :
           IsBound(r) => requestToServiceType'[r] = requestToServiceType[r]
    /\ counterRequest' # counterRequest
           => /\ counterRequest' = counterRequest + 1
              /\ ~IsBound(counterRequest)
              /\ requestToServiceType'[counterRequest] # 0

C26_OneCompletion ==
    \A s \in ServiceTypeIds :
        decryptedAggregates'[s] # decryptedAggregates[s]
            => ~IsRevealed(s) /\ decryptedAggregates'[s].isRevealed

C26_NoPendingGuard ==
    /\ []C26_PendingAllowsMore
    /\ [][C26_RequestBindsNextId]_vars
    /\ [][C26_OneCompletion]_vars

\* two request ids bound to service type 1 with different saved handles,
\* both deliverable, and a third request would succeed
C26_Witness ==
    \E r1, r2 \in Requested, manager \in Address :
        /\ r1 # r2
        /\ Target(r1) = 1
        /\ Target(r2) = 1
        /\ Pending(r1)
        /\ requestedHandles[r1] # requestedHandles[r2]
        /\ authorizedManagers[manager]
        /\ requestAggregateDecryptionResult(manager, 1) = "ok"
        /\ decryptAggregateDataResult(r1, TrueCleartexts(r1), TrueProof(r1)) = "ok"
        /\ decryptAggregateDataResult(r2, TrueCleartexts(r2), TrueProof(r2)) = "ok"

(***************************************************************************)
(* C27: liveness of the reveal.  If a request id is bound to a service     *)
(* type that is not revealed, and the oracle's callback with the valid     *)
(* proof for that id is weakly fair, the service type is eventually        *)
(* revealed, whatever submissions, updates, further requests and refused   *)
(* callbacks are interleaved.                                              *)
(***************************************************************************)
\* the oracle delivers the decryption of the handles of a request together
\* with its signature
OracleCallback(requestId) ==
    decryptAggregateData(requestId, TrueCleartexts(requestId), TrueProof(requestId))

OracleFairSpec == Spec /\ \A r \in RequestIds : WF_vars(OracleCallback(r))

C27_RevealEventually ==
    \A s \in ServiceTypeIds \ {0} :
        (~IsRevealed(s) /\ \E r \in RequestIds : Target(r) = s) ~> IsRevealed(s)

\* a service type revealed although it was updated and requested again
\* while its first request was pending
C27_Witness ==
    /\ IsRevealed(1)
    /\ Target(0) = 1
    /\ Target(1) = 1
    /\ requestedHandles[0] # requestedHandles[1]
    /\ decryptedAggregates[1] = RevealedAggregate(TrueCleartexts(0))

(***************************************************************************)
(* C28: while every aggregated feedback has a rating in 0..5 and a         *)
(* response time in 0..1009, no subtraction wraps and the improvement      *)
(* score is in 0..100 after any sequence of updates.  For a response time  *)
(* t of 1010 or more the update does not fail and the term 100 - t div 10  *)
(* wraps: it is 2^32 - (t div 10 - 100).                                   *)
(***************************************************************************)
InRange(feedback) ==
    /\ Geq32(U32(5), Plain(feedback.encryptedRating))
    /\ Geq32(U32(1009), Plain(feedback.encryptedResponseTime))

C28_ScoreBounded ==
    /\ \A feedbackId \in FeedbackIds :
           /\ updateServiceAggregatesResult(feedbackId) = "ok"
           /\ InRange(feedbacks[feedbackId])
                  => Geq32(U32(100),
                           Div32(Plain(feedbacks[feedbackId].encryptedResponseTime),
                                 U32(10)))
    /\ (\A i \in 1..Len(aggregated) : InRange(feedbacks[aggregated[i]]))
           => Geq32(U32(100), Plain(serviceAggregates[1].encryptedImprovementScore))

\* 2^32 - (t div 10 - 100), for t div 10 > 100
WrappedImpact(t) ==
    Sub32(Max32, Sub32(Sub32(Div32(t, U32(10)), U32(100)), U32(1)))

C28_StepWraps ==
    aggregated' # aggregated
        => \A feedbackId \in 1..feedbackCount :
               (/\ Geq32(Plain(feedbacks[feedbackId].encryptedResponseTime), U32(1010))
                /\ updateServiceAggregates(feedbackId))
                   => LET r == Plain(feedbacks[feedbackId].encryptedRating)
                          t == Plain(feedbacks[feedbackId].encryptedResponseTime)
                          previous == Plain(serviceAggregates[1].encryptedImprovementScore)
                      IN  Plain(serviceAggregates'[1].encryptedImprovementScore)
                              = Div32(Add32(previous,
                                            Div32(Add32(Mul32(r, U32(20)),
                                                        WrappedImpact(t)),
                                                  U32(2))),
                                      U32(2))

C28_ScoreRange == []C28_ScoreBounded /\ [][C28_StepWraps]_vars

\* rating 0 and response time 1010 aggregated first: the term is 2^32 - 1
\* and the score (2^32 - 1) div 4 = 2^30 - 1
C28_Witness ==
    /\ aggregated = <<1>>
    /\ Plain(feedbacks[1].encryptedRating) = U32(0)
    /\ Plain(feedbacks[1].encryptedResponseTime) = U32(1010)
    /\ Plain(serviceAggregates[1].encryptedImprovementScore) = <<16383, 65535>>
    /\ ~Geq32(U32(100), Plain(serviceAggregates[1].encryptedImprovementScore))

(***************************************************************************)
(* C29: in the frontend store, after any interleaving of submitFeedback    *)
(* runs, every feedback whose submitFeedback reported success has its id   *)
(* in the list under feedback_keys.  A run reports success in the step     *)
(* that writes the list with its id appended, so the claim is that the id  *)
(* is listed by that step and that no step removes a listed id.            *)
(***************************************************************************)
ListedIds == Range(ParseKeys(data[KeysKey]))

C29_SuccessListsAndKeeps ==
    /\ \A c \in Clients :
           submitFeedback_setKeys(c)
               => /\ transactionStatus'[c] = "success"
                  /\ currentFeedbackId[c] \in ListedIds'
    /\ \A id \in FrontendIds : id \in ListedIds => id \in ListedIds'

C29_NoLostKey == [][C29_SuccessListsAndKeeps]_vars

(***************************************************************************)
(* C30: in the frontend store every id listed under feedback_keys has a    *)
(* non-empty record under feedback_<id>, in every reachable state: the     *)
(* record is written before the id is appended and no step empties a       *)
(* record.  A failure between the two writes leaves a record that is not   *)
(* listed, never a listed id without a record.                             *)
(***************************************************************************)
HasRecord(id) == Len(data[FeedbackKey(id)]) > 0

C30_ListedHasRecord ==
    /\ \A id \in ListedIds : id \in FrontendIds /\ HasRecord(id)
    /\ \A c \in Clients :
           pc[c] \in {"submit_getKeys", "submit_setKeys"}
               => HasRecord(currentFeedbackId[c])

C30_RecordNeverEmptied ==
    \A id \in FrontendIds : HasRecord(id) => HasRecord(id)'

C30_NoDanglingKey == []C30_ListedHasRecord /\ [][C30_RecordNeverEmptied]_vars

\* one submission went through, the other failed between its two writes:
\* its record is stored and not listed
C30_Witness ==
    \E listed, unlisted \in FrontendIds, c \in Clients :
        /\ ListedIds = {listed}
        /\ HasRecord(listed)
        /\ unlisted # listed
        /\ HasRecord(unlisted)
        /\ transactionStatus[c] = "error"
        /\ \A d \in Clients : pc[d] = "idle"

(***************************************************************************)
(* C31: assessFeedbackCredibility returns 0 for a citizen with no          *)
(* feedback; otherwise it divides the consistency sum by the number of the *)
(* citizen's feedbacks minus 1.  With exactly one feedback the divisor is  *)
(* 0; with two or more the result is the mean, in integer division and     *)
(* arithmetic modulo 2^32, of 5 - |rating_i - rating_(i-1)| over the       *)
(* consecutive pairs of the citizen's feedbacks.                           *)
(***************************************************************************)
RatingOf(id) == ToInt(Plain(feedbacks[id].encryptedRating))

Distance(a, b) == IF a >= b THEN a - b ELSE b - a

\* the sum over i in 2..n of 5 - |rating_i - rating_(i-1)|, modulo 2^32
RECURSIVE PairSum(_)
PairSum(ids) ==
    IF Len(ids) <= 1 THEN Zero32
    ELSE Add32(PairSum(SubSeq(ids, 1, Len(ids) - 1)),
               Sub32(U32(5),
                     U32(Distance(RatingOf(ids[Len(ids)]),
                                  RatingOf(ids[Len(ids) - 1])))))

C31_Credibility ==
    \A citizen \in Address :
        LET ids == citizenFeedbacks[citizen]
            n == Len(ids)
            result == assessFeedbackCredibility(citizen)
        IN  /\ n = 0 => result = FHE_asEuint32(0)
            /\ n = 1 => /\ Plain(CredibilityDivisor(ids)) = Zero32
                        /\ Plain(result) = Div32(Zero32, Zero32)
            /\ n >= 2 => /\ Plain(CredibilityDivisor(ids)) = U32(n - 1)
                         /\ Plain(result) = DivNonZero32(PairSum(ids), U32(n - 1))

\* one citizen with a single feedback (divisor 0), the other with ratings
\* 5, 5, 4: (5 + 4) div 2 = 4
C31_Witness ==
    \E one, three \in Address :
        /\ Len(citizenFeedbacks[one]) = 1
        /\ Plain(CredibilityDivisor(citizenFeedbacks[one])) = Zero32
        /\ Len(citizenFeedbacks[three]) = 3
        /\ PairSum(citizenFeedbacks[three]) = U32(9)
        /\ Plain(assessFeedbackCredibility(three)) = U32(4)

====
